---- MODULE Spec2Model ----
(***************************************************************************)
(* Particle field of main.py: a pool of particles emitted on a spherical   *)
(* shell around an orbiting emitter, integrated one unit step per call,    *)
(* redirected towards an orbiting absorber inside the absorption radius    *)
(* and removed inside the removal radius.                                  *)
(*                                                                         *)
(* Numbers.  The program computes in float64.  The model computes in       *)
(* fixed point: a length, a speed or a cosine x is the integer nearest to  *)
(* x * Scale, and every product or quotient is rounded to the nearest      *)
(* unit, the way each float operation is rounded to the nearest float.     *)
(* An angle is an integer number of steps of 2*pi/TwoPi (3 degrees).       *)
(* A comparison `distance < r' is made on the squares, which decides the   *)
(* same thing for r > 0 and keeps the boundary distance = r exact.         *)
(***************************************************************************)
EXTENDS Integers, Sequences, FiniteSets, TLC

VARIABLES
    cfg,         \* the configuration constants of lines 7-24
    loaded,      \* outcome of running the module's top level: "no", "ok" or the exception raised
    wind_speed,  \* line 15, derived from the configuration
    theta,       \* line 21, the phase table
    particles,   \* line 35, the pool: [pos, vel, age], three parallel arrays
    pre,         \* the pool as it was when the last call began
    call,        \* the last call made and its arguments
    distances,   \* line 92, the squared distances measured by the last update_particles
    written,     \* particles['vel'] as line 103 left it, before the removal of lines 106-110
    fp_invalid,  \* a division by a zero norm happened at line 101 (numpy writes nan)
    steps        \* number of calls made so far

vars == <<cfg, loaded, wind_speed, theta, particles, pre, call, distances, written,
          fp_invalid, steps>>

-----------------------------------------------------------------------------
(* Fixed point *)

Scale == 1000

\* nearest integer to a / b, for b > 0
RoundDiv(a, b) == (2 * a + b) \div (2 * b)

\* the product of two fixed-point numbers
Mul(a, b) == RoundDiv(a * b, Scale)

\* Newton's iteration from a start r >= sqrt(x)
RECURSIVE Newton(_, _)
Newton(x, r) ==
    LET r2 == (r + x \div r) \div 2
    IN  IF r2 >= r THEN r ELSE Newton(x, r2)

\* floor of the square root of x, 0 <= x < 2^30
ISqrt(x) ==
    IF x < 2 THEN x
    ELSE IF x < 4096 THEN Newton(x, 64)
    ELSE IF x < 4194304 THEN Newton(x, 2048)
    ELSE Newton(x, 32768)

\* a function on 1..n as the array it denotes, every element computed once
Array(f) == SubSeq(f, 1, Len(f))

VAdd(a, b) == <<a[1] + b[1], a[2] + b[2], a[3] + b[3]>>
VSub(a, b) == <<a[1] - b[1], a[2] - b[2], a[3] - b[3]>>
Dot(a, b) == a[1] * b[1] + a[2] * b[2] + a[3] * b[3]

\* np.linalg.norm of one row
Norm(v) == ISqrt(Dot(v, v))

\* the square of the distance between two points
Dist2(a, b) ==
    (a[1] - b[1]) * (a[1] - b[1]) + (a[2] - b[2]) * (a[2] - b[2])
        + (a[3] - b[3]) * (a[3] - b[3])

\* d < r for a distance d >= 0 given by its square d2
Less(d2, r) == r > 0 /\ d2 < r * r

-----------------------------------------------------------------------------
(* Angles and trigonometry *)

\* np.pi, in angle steps and as a fixed-point number
Pi == 60
TwoPi == 2 * Pi
PiFx == 3142

\* 1000 * cos(2*pi*k/120), k = 0..119, rounded
CosTab == <<
     1000,   999,   995,   988,   978,   966,   951,   934,   914,   891,
      866,   839,   809,   777,   743,   707,   669,   629,   588,   545,
      500,   454,   407,   358,   309,   259,   208,   156,   105,    52,
        0,   -52,  -105,  -156,  -208,  -259,  -309,  -358,  -407,  -454,
     -500,  -545,  -588,  -629,  -669,  -707,  -743,  -777,  -809,  -839,
     -866,  -891,  -914,  -934,  -951,  -966,  -978,  -988,  -995,  -999,
    -1000,  -999,  -995,  -988,  -978,  -966,  -951,  -934,  -914,  -891,
     -866,  -839,  -809,  -777,  -743,  -707,  -669,  -629,  -588,  -545,
     -500,  -454,  -407,  -358,  -309,  -259,  -208,  -156,  -105,   -52,
        0,    52,   105,   156,   208,   259,   309,   358,   407,   454,
      500,   545,   588,   629,   669,   707,   743,   777,   809,   839,
      866,   891,   914,   934,   951,   966,   978,   988,   995,   999 >>

\* np.cos and np.sin of an angle given in steps
Cos(a) == CosTab[(a % TwoPi) + 1]
Sin(a) == Cos(a - Pi \div 2)

\* np.sin(np.arccos(u)) and np.cos(np.arccos(u)) for -1 <= u <= 1
SinArccos(u) == ISqrt(Scale * Scale - u * u)
CosArccos(u) == u

-----------------------------------------------------------------------------
(* Configuration, lines 6-24 *)

red_radius == 1200
blue_radius == 3000
orbit_period == 120
particles_frame == 400
particle_life == 1000
absorption_radius == 2500
absorption_speed == 50
center == <<0, 0, 0>>

\* the literal 0.1 of line 106
removal_radius == 100

SourceConfig ==
    [red_radius |-> red_radius, blue_radius |-> blue_radius,
     orbit_period |-> orbit_period, particles_frame |-> particles_frame,
     particle_life |-> particle_life, absorption_radius |-> absorption_radius,
     absorption_speed |-> absorption_speed]

\* lines 10, 11, 15
red_circ(c) == Mul(2 * PiFx, c.red_radius)
red_speed(c) == RoundDiv(red_circ(c), c.orbit_period)

\* line 21: np.linspace(0, 2*pi, orbit_period, endpoint=False), 0-indexed
Linspace(num) == [k \in 0..(num - 1) |-> RoundDiv(k * TwoPi, num)]

\* what running lines 6-24 ends with: they validate nothing; only the division of line 11
\* and np.linspace of line 21 can raise
ModuleLoad(c) ==
    IF c.orbit_period = 0 THEN "ZeroDivisionError"
    ELSE IF c.orbit_period < 0 THEN "ValueError"
    ELSE "ok"

NoCall == [op |-> "none", origin |-> center, n |-> 0, radius |-> 0,
           blue_pos |-> center, frame |-> 0, frame_idx |-> 0]

EmptyPool == [pos |-> <<>>, vel |-> <<>>, age |-> <<>>]

-----------------------------------------------------------------------------
(* emit_particles, lines 55-79 *)

\* row i of new_pos and new_vel (lines 65-74) for the draws az[i] (azimuth) and u[i]
NewPos(x, y, z, radius, a, u) ==
    << x + Mul(Mul(radius, Cos(a)), SinArccos(u)),
       y + Mul(Mul(radius, Sin(a)), SinArccos(u)),
       z + Mul(radius, CosArccos(u)) >>

NewVel(a, u) ==
    << Mul(Mul(Cos(a), SinArccos(u)), wind_speed),
       Mul(Mul(Sin(a), SinArccos(u)), wind_speed),
       Mul(CosArccos(u), wind_speed) >>

\* emit_particles stacking the new rows above the old ones
EmittedPrepend(p, x, y, z, n, radius, az, u) ==
    IF n <= 0 THEN p
    ELSE [pos |-> [i \in 1..n |-> NewPos(x, y, z, radius, az[i], u[i])] \o p.pos,
          vel |-> [i \in 1..n |-> NewVel(az[i], u[i])] \o p.vel,
          age |-> [i \in 1..n |-> 0] \o p.age]

\* the pool emit_particles leaves; az and u are the n draws of lines 62-63
Emitted(p, x, y, z, n, radius, az, u) ==
    IF n <= 0 THEN p
    ELSE [pos |-> p.pos \o [i \in 1..n |-> NewPos(x, y, z, radius, az[i], u[i])],
          vel |-> p.vel \o [i \in 1..n |-> NewVel(az[i], u[i])],
          age |-> p.age \o [i \in 1..n |-> 0]]

-----------------------------------------------------------------------------
(* update_particles, lines 82-110 *)

\* lines 17-18
period == 4800
frame_time == period \div orbit_period

\* line 88 scaling the step by frame_time
MovedByFrameTime(p) == [i \in 1..Len(p.pos) |-> VAdd(p.pos[i], 
    <<Mul(p.vel[i][1], frame_time), Mul(p.vel[i][2], frame_time), Mul(p.vel[i][3], frame_time)>>)]

\* line 88, line 89
Moved(p) == [i \in 1..Len(p.pos) |-> VAdd(p.pos[i], p.vel[i])]
Aged(p) == [i \in 1..Len(p.age) |-> p.age[i] + 1]

\* line 92, squared
Distances(pos, blue_pos) == [i \in 1..Len(pos) |-> Dist2(pos[i], blue_pos)]

\* line 95
CloseMask(d) == [i \in 1..Len(d) |-> Less(d[i], cfg.absorption_radius)]

\* line 100 left out
GuardNormOff(nrm) == nrm

\* line 100: norms[norms == 0] = 1.0
GuardNorm(nrm) == IF nrm = 0 THEN Scale ELSE nrm

\* lines 97-100: the guarded norm of blue_pos - pos[i] for the rows of the mask
\* (the other rows have no entry in the code; they are never read here)
Norms(pos, close_mask, blue_pos) ==
    [i \in 1..Len(pos) |->
        IF close_mask[i] THEN GuardNorm(Norm(VSub(blue_pos, pos[i]))) ELSE Scale]

\* line 101, one component; the quotient by a zero norm is nan, recorded in fp_invalid
Normalized(d, nrm) == IF nrm = 0 THEN 0 ELSE RoundDiv(d * Scale, nrm)

\* lines 101-102, one row of absorption_force
AbsorptionForce(direction_to_blue, nrm) ==
    << Mul(cfg.absorption_speed, Normalized(direction_to_blue[1], nrm)),
       Mul(cfg.absorption_speed, Normalized(direction_to_blue[2], nrm)),
       Mul(cfg.absorption_speed, Normalized(direction_to_blue[3], nrm)) >>

\* line 103 adding the force to the velocity instead of overwriting it
RedirectedAdded(pos, vel, close_mask, norms, blue_pos) ==
    [i \in 1..Len(vel) |->
        IF close_mask[i]
        THEN VAdd(vel[i], AbsorptionForce(VSub(blue_pos, pos[i]), norms[i]))
        ELSE vel[i]]

\* lines 96-103: particles['vel'][close_mask] = absorption_force
Redirected(pos, vel, close_mask, norms, blue_pos) ==
    [i \in 1..Len(vel) |->
        IF close_mask[i] THEN AbsorptionForce(VSub(blue_pos, pos[i]), norms[i]) ELSE vel[i]]

\* line 101 divides by zero for some row of the mask
DividesByZero(close_mask, norms) ==
    \E i \in 1..Len(norms) : close_mask[i] /\ norms[i] = 0

\* line 106 with <= in place of <
AliveMaskInclusive(d, age) ==
    [i \in 1..Len(d) |-> ~(d[i] <= removal_radius * removal_radius)]

\* line 107 also culling by age
AliveMaskCull(d, age) ==
    [i \in 1..Len(d) |-> ~Less(d[i], removal_radius) /\ age[i] < cfg.particle_life]

\* lines 106-107
AliveMask(d, age) == [i \in 1..Len(d) |-> ~Less(d[i], removal_radius)]

\* the indices a boolean mask selects, in increasing order
Selected(mask) == SelectSeq(Array([i \in 1..Len(mask) |-> i]), LAMBDA i : mask[i])

\* arr[mask], lines 108-110
Take(arr, idx) == Array([j \in 1..Len(idx) |-> arr[idx[j]]])

\* lines 88-110 without line 110: the ages of removed particles stay
AdvanceKeepAges(p, blue_pos) ==
    \E pos1 \in {Array(Moved(p))}, age1 \in {Array(Aged(p))} :
    \E d \in {Array(Distances(pos1, blue_pos))} :
    \E close_mask \in {Array(CloseMask(d))} :
    \E norms \in {Array(Norms(pos1, close_mask, blue_pos))} :
    \E vel1 \in {Array(Redirected(pos1, p.vel, close_mask, norms, blue_pos))} :
    \E idx \in {Selected(Array(AliveMask(d, age1)))} :
        /\ particles' = [pos |-> Take(pos1, idx), vel |-> Take(vel1, idx), age |-> age1]
        /\ distances' = d
        /\ written' = vel1
        /\ fp_invalid' = DividesByZero(close_mask, norms)

\* lines 88-110 on a non-empty pool p, each array computed once, in the order of the code
Advance(p, blue_pos) ==
    \E pos1 \in {Array(Moved(p))}, age1 \in {Array(Aged(p))} :
    \E d \in {Array(Distances(pos1, blue_pos))} :
    \E close_mask \in {Array(CloseMask(d))} :
    \E norms \in {Array(Norms(pos1, close_mask, blue_pos))} :
    \E vel1 \in {Array(Redirected(pos1, p.vel, close_mask, norms, blue_pos))} :
    \E idx \in {Selected(Array(AliveMask(d, age1)))} :
        /\ particles' = [pos |-> Take(pos1, idx), vel |-> Take(vel1, idx),
                         age |-> Take(age1, idx)]
        /\ distances' = d
        /\ written' = vel1
        /\ fp_invalid' = DividesByZero(close_mask, norms)

\* update_particles on pool p, with its early return of lines 84-85
Update(p, blue_pos) ==
    IF Len(p.pos) = 0
    THEN /\ particles' = p
         /\ distances' = <<>>
         /\ written' = <<>>
         /\ fp_invalid' = FALSE
    ELSE Advance(p, blue_pos)

-----------------------------------------------------------------------------
(* update_frames, lines 113-133 *)

\* line 118 clamping the frame into the table instead of wrapping it
FrameIdxClamped(frame) ==
    IF frame < 0 THEN 0
    ELSE IF frame >= cfg.orbit_period THEN cfg.orbit_period - 1
    ELSE frame

\* line 118; Python's % takes the sign of the divisor, as TLA+'s does
FrameIdx(frame) == frame % cfg.orbit_period

\* lines 121-123
RedPos(frame) ==
    << center[1] + Mul(cfg.red_radius, Cos(theta[FrameIdx(frame)])),
       center[2] + Mul(cfg.red_radius, Sin(theta[FrameIdx(frame)])),
       center[3] >>

\* lines 126-129
BluePos(frame) ==
    << center[1] + Mul(cfg.blue_radius, Cos(theta[FrameIdx(frame)] + Pi)),
       center[2] + Mul(cfg.blue_radius, Sin(theta[FrameIdx(frame)] + Pi)),
       center[3] >>

\* lines 132-133 in the other order: the pool is advanced, then the new particles join it
StepAdvanceFirst(p, frame, az, u) ==
    \E red \in {RedPos(frame)}, blue \in {BluePos(frame)} :
        IF Len(p.pos) = 0
        THEN /\ particles' = Emitted(p, red[1], red[2], red[3], cfg.particles_frame,
                                     cfg.red_radius, az, u)
             /\ distances' = <<>>
             /\ written' = <<>>
             /\ fp_invalid' = FALSE
        ELSE \E pos1 \in {Array(Moved(p))}, age1 \in {Array(Aged(p))} :
             \E d \in {Array(Distances(pos1, blue))} :
             \E close_mask \in {Array(CloseMask(d))} :
             \E norms \in {Array(Norms(pos1, close_mask, blue))} :
             \E vel1 \in {Array(Redirected(pos1, p.vel, close_mask, norms, blue))} :
             \E idx \in {Selected(Array(AliveMask(d, age1)))} :
                 /\ particles' =
                       Emitted([pos |-> Take(pos1, idx), vel |-> Take(vel1, idx),
                                age |-> Take(age1, idx)],
                               red[1], red[2], red[3], cfg.particles_frame,
                               cfg.red_radius, az, u)
                 /\ distances' = d
                 /\ written' = vel1
                 /\ fp_invalid' = DividesByZero(close_mask, norms)

\* lines 132-133: emit at the emitter, then advance against the absorber
Step(p, frame, az, u) ==
    \E red \in {RedPos(frame)}, blue \in {BluePos(frame)} :
    \E q \in {Emitted(p, red[1], red[2], red[3], cfg.particles_frame, cfg.red_radius, az, u)} :
        Update(q, blue)

-----------------------------------------------------------------------------
(* Bounds and inputs *)

MaxCalls == 4
MaxPool == 3
MaxTicks == 8
MaxOrbitTicks == 2
MaxConfigTicks == 2

\* emit_particles and update_particles called directly
Counts == {-1, 0, 1, 2}
Azimuths == {0, 7}
Cosines == {0, 1000}
Origins == {<<0, 0, 0>>}
BluePositions ==
    { <<1263, 0, 0>>, <<1313, 0, 0>>, <<1363, 0, 0>>, <<3663, 0, 0>>, <<3763, 0, 0>>,
      <<-3000, 0, 0>> }

\* the draws of one update_frames call (lines 62-63): stream s of the generator, n values
Streams == {0}
AzimuthDraws(s, n) == [i \in 1..n |-> (s + 3 * (i - 1)) % TwoPi]
CosineDraws(s, n) == [i \in 1..n |-> <<0, 600, -800, 1000>>[(((i - 1) \div 40) % 4) + 1]]

\* frame values handed to update_frames
TickFrames == {0, 60}
OrbitFrames == {-121, -120, -61, -1, 0, 1, 7, 30, 59, 60, 90, 119, 120, 127, 179}
ConfigFrames == {0, 60, -1}

\* configurations the constants of lines 7-24 may be edited to
Configs ==
    { [SourceConfig EXCEPT !.red_radius = r, !.blue_radius = b, !.orbit_period = o,
                           !.absorption_radius = a, !.particle_life = l] :
        r \in {red_radius, -red_radius}, b \in {blue_radius, 2500},
        o \in {orbit_period, 0, -orbit_period}, a \in {absorption_radius, 0},
        l \in {particle_life, 1} }

-----------------------------------------------------------------------------
(* The calls *)

emit_particles(x, y, z, n, radius, az, u) ==
    /\ loaded = "ok"
    /\ particles' = Emitted(particles, x, y, z, n, radius, az, u)
    /\ pre' = particles
    /\ call' = [NoCall EXCEPT !.op = "emit_particles", !.origin = <<x, y, z>>, !.n = n,
                              !.radius = radius]
    /\ distances' = <<>>
    /\ written' = <<>>
    /\ fp_invalid' = FALSE
    /\ steps' = steps + 1
    /\ UNCHANGED <<cfg, loaded, wind_speed, theta>>

update_particles(blue_pos) ==
    /\ loaded = "ok"
    /\ Update(particles, blue_pos)
    /\ pre' = particles
    /\ call' = [NoCall EXCEPT !.op = "update_particles", !.blue_pos = blue_pos]
    /\ steps' = steps + 1
    /\ UNCHANGED <<cfg, loaded, wind_speed, theta>>

update_frames(frame, az, u) ==
    /\ loaded = "ok"
    /\ Step(particles, frame, az, u)
    /\ pre' = particles
    /\ call' = [NoCall EXCEPT !.op = "update_frames", !.frame = frame,
                              !.frame_idx = FrameIdx(frame),
                              !.origin = RedPos(frame), !.blue_pos = BluePos(frame),
                              !.n = cfg.particles_frame, !.radius = cfg.red_radius]
    /\ steps' = steps + 1
    /\ UNCHANGED <<cfg, loaded, wind_speed, theta>>

\* the module's top level, lines 6-39
Configuration ==
    /\ loaded = "no"
    /\ loaded' = ModuleLoad(cfg)
    /\ wind_speed' = IF ModuleLoad(cfg) = "ok" THEN red_speed(cfg) ELSE wind_speed
    /\ theta' = IF ModuleLoad(cfg) = "ok" THEN Linspace(cfg.orbit_period) ELSE theta
    /\ UNCHANGED <<cfg, particles, pre, call, distances, written, fp_invalid, steps>>

-----------------------------------------------------------------------------
(* Specifications *)

\* no call made yet
Fresh ==
    /\ particles = EmptyPool
    /\ pre = EmptyPool
    /\ call = NoCall
    /\ distances = <<>>
    /\ written = <<>>
    /\ fp_invalid = FALSE
    /\ steps = 0

\* the state the module's top level leaves with the constants as the source sets them
Init ==
    /\ cfg = SourceConfig
    /\ loaded = ModuleLoad(SourceConfig)
    /\ wind_speed = red_speed(SourceConfig)
    /\ theta = Linspace(orbit_period)
    /\ Fresh

EmitCall ==
    /\ steps < MaxCalls
    /\ \E n \in Counts, o \in Origins :
          /\ Len(particles.pos) + n <= MaxPool
          /\ \E az \in [1..n -> Azimuths], u \in [1..n -> Cosines] :
                emit_particles(o[1], o[2], o[3], n, red_radius, az, u)

UpdateCall ==
    /\ steps < MaxCalls
    /\ \E b \in BluePositions : update_particles(b)

\* emit_particles and update_particles in any order
Next == EmitCall \/ UpdateCall

Spec == Init /\ [][Next]_vars

\* the animation: one update_frames per tick
Tick ==
    /\ steps < MaxTicks
    /\ \E f \in TickFrames, s \in Streams :
          update_frames(f, AzimuthDraws(s, cfg.particles_frame),
                        CosineDraws(s, cfg.particles_frame))

NextTick == Tick

SpecTick == Init /\ [][NextTick]_vars

\* update_frames on arbitrary frame values
OrbitTick ==
    /\ steps < MaxOrbitTicks
    /\ \E f \in OrbitFrames, s \in Streams :
          update_frames(f, AzimuthDraws(s, cfg.particles_frame),
                        CosineDraws(s, cfg.particles_frame))

NextOrbit == OrbitTick

SpecOrbit == Init /\ [][NextOrbit]_vars

\* the module loaded with edited constants, then animated
InitConfig ==
    /\ cfg \in Configs
    /\ loaded = "no"
    /\ wind_speed = 0
    /\ theta = <<>>
    /\ Fresh

ConfigTick ==
    /\ steps < MaxConfigTicks
    /\ \E f \in ConfigFrames, s \in Streams :
          update_frames(f, AzimuthDraws(s, cfg.particles_frame),
                        CosineDraws(s, cfg.particles_frame))

NextConfig == Configuration \/ ConfigTick

SpecConfig == InitConfig /\ [][NextConfig]_vars

-----------------------------------------------------------------------------
(* What the last call did, read from the pool before it and the pool after it *)

Abs(x) == IF x < 0 THEN -x ELSE x

\* p lies at distance r from o, to within tol units
OnShell(p, o, r, tol) ==
    \E d2 \in {Dist2(p, o)} :
        /\ (Abs(r) - tol) * (Abs(r) - tol) <= d2
        /\ d2 <= (Abs(r) + tol) * (Abs(r) + tol)

\* v has length s, to within tol units
HasSpeed(v, s, tol) ==
    /\ (s - tol) * (s - tol) <= Dot(v, v)
    /\ Dot(v, v) <= (s + tol) * (s + tol)

\* v points along d, to within the rounding of its components (one unit each)
PointsAlong(v, d) ==
    /\ Dot(v, d) > 0
    /\ Abs(v[1] * d[2] - v[2] * d[1]) <= 2 * (Norm(d) + 1)
    /\ Abs(v[2] * d[3] - v[3] * d[2]) <= 2 * (Norm(d) + 1)
    /\ Abs(v[3] * d[1] - v[1] * d[3]) <= 2 * (Norm(d) + 1)

\* particle i of the pool before update_particles, after its one integration step
PostPos(i) == VAdd(pre.pos[i], pre.vel[i])

\* its distance to the absorber is strictly below the removal radius (0.1)
Absorbed(i) == Dist2(PostPos(i), call.blue_pos) < removal_radius * removal_radius

\* it is strictly inside the absorption radius (2.5)
Close(i) == Dist2(PostPos(i), call.blue_pos) < absorption_radius * absorption_radius

Kept == {i \in 1..Len(pre.pos) : ~Absorbed(i)}

\* the index particle i of Kept has in the pool after the call
Rank(i) == Cardinality({k \in Kept : k <= i})

\* C1: after any sequence of emit_particles and update_particles calls from the empty
\* pool, the three arrays of the pool have the same length
ParallelArrays ==
    /\ Len(particles.pos) = Len(particles.vel)
    /\ Len(particles.vel) = Len(particles.age)

\* an update_particles that removed some particles of a pool and kept others
ParallelArraysWitness ==
    /\ call.op = "update_particles"
    /\ Len(particles.pos) > 0
    /\ Len(particles.pos) < Len(pre.pos)

\* C2: emit_particles with n > 0 appends n particles of age 0 at distance radius from
\* (x, y, z) and leaves the k particles before them as they were; with n <= 0 it leaves
\* the pool unchanged
EmitAppends ==
    call.op = "emit_particles" =>
        IF call.n <= 0 THEN particles = pre
        ELSE /\ Len(particles.pos) = Len(pre.pos) + call.n
             /\ Len(particles.vel) = Len(pre.vel) + call.n
             /\ Len(particles.age) = Len(pre.age) + call.n
             /\ \A i \in 1..Len(pre.pos) :
                   /\ particles.pos[i] = pre.pos[i]
                   /\ particles.vel[i] = pre.vel[i]
                   /\ particles.age[i] = pre.age[i]
             /\ \A i \in (Len(pre.pos) + 1)..(Len(pre.pos) + call.n) :
                   /\ particles.age[i] = 0
                   /\ OnShell(particles.pos[i], call.origin, call.radius, 2)

\* two particles emitted into a pool that holds an older one
EmitAppendsWitness ==
    /\ call.op = "emit_particles"
    /\ call.n = 2
    /\ Len(pre.pos) > 0
    /\ pre.age[1] > 0
    /\ Len(particles.pos) = Len(pre.pos) + 2

\* C3: update_particles removes exactly the particles whose distance to blue_pos, taken
\* at old position + old velocity, is strictly below 0.1; the others stay, in the same
\* order, each with its own position, velocity and age
RemovalExact ==
    (call.op = "update_particles" /\ Len(pre.pos) > 0) =>
        /\ Len(particles.pos) = Cardinality(Kept)
        /\ Len(pre.pos) - Len(particles.pos) =
              Cardinality({i \in 1..Len(pre.pos) : Absorbed(i)})
        /\ \A i \in Kept :
              /\ particles.pos[Rank(i)] = PostPos(i)
              /\ particles.age[Rank(i)] = pre.age[i] + 1
              /\ particles.vel[Rank(i)] = written[i]

\* one particle at distance exactly 0.1 kept while another, nearer, is removed
RemovalExactWitness ==
    /\ call.op = "update_particles"
    /\ \E i, j \in 1..Len(pre.pos) :
          /\ Dist2(PostPos(i), call.blue_pos) = removal_radius * removal_radius
          /\ Absorbed(j)
          /\ i > j
          /\ particles.pos[Rank(i)] = PostPos(i)

\* C4: a particle strictly inside the absorption radius after integration leaves
\* update_particles with a velocity of magnitude absorption_speed pointing from its
\* position to blue_pos, whatever its velocity was; one at distance >= 2.5 keeps its
\* velocity
RedirectToAbsorber ==
    (call.op = "update_particles" /\ Len(pre.pos) > 0) =>
        \A i \in Kept :
            IF Close(i)
            THEN /\ HasSpeed(particles.vel[Rank(i)], absorption_speed, 1)
                 /\ PointsAlong(particles.vel[Rank(i)], VSub(call.blue_pos, PostPos(i)))
            ELSE particles.vel[Rank(i)] = pre.vel[i]

\* a particle at distance exactly 2.4 redirected and still in the pool, beside one at
\* distance 2.5 or more that keeps its velocity
RedirectToAbsorberWitness ==
    /\ call.op = "update_particles"
    /\ \E i, j \in Kept :
          /\ Dist2(PostPos(i), call.blue_pos) = 2400 * 2400
          /\ particles.vel[Rank(i)] # pre.vel[i]
          /\ ~Close(j)

\* C5: update_particles moves every particle by the velocity it had before the call and
\* adds 1 to its age; on an empty pool it changes nothing
IntegrateOnce ==
    call.op = "update_particles" =>
        IF Len(pre.pos) = 0 THEN particles = pre /\ distances = <<>>
        ELSE /\ Len(distances) = Len(pre.pos)
             /\ \A i \in 1..Len(pre.pos) :
                   distances[i] = Dist2(VAdd(pre.pos[i], pre.vel[i]), call.blue_pos)
             /\ \A i \in Kept :
                   /\ particles.pos[Rank(i)] = VAdd(pre.pos[i], pre.vel[i])
                   /\ particles.age[Rank(i)] = pre.age[i] + 1

\* a particle that this call redirects: it moved by its old velocity, not the new one
IntegrateOnceWitness ==
    /\ call.op = "update_particles"
    /\ \E i \in Kept :
          /\ pre.age[i] > 0
          /\ particles.vel[Rank(i)] # pre.vel[i]
          /\ particles.pos[Rank(i)] = VAdd(pre.pos[i], pre.vel[i])

-----------------------------------------------------------------------------
(* What the last update_frames did *)

\* the rows of the advanced pool that the removal radius leaves, in order
Survivors ==
    SelectSeq(Array([i \in 1..Len(distances) |-> i]),
              LAMBDA i : distances[i] >= removal_radius * removal_radius)

\* C6: a tick emits particles_frame particles at the emitter, then advances the whole
\* pool, the new particles included, once against that frame's absorber: the pool grows
\* by 400 minus the particles removed and no particle is left with age 0
TickOrder ==
    call.op = "update_frames" =>
        \E sv \in {Survivors} :
            /\ Len(distances) = Len(pre.pos) + particles_frame
            /\ Len(particles.pos) =
                  Len(pre.pos) + particles_frame - (Len(distances) - Len(sv))
            /\ Len(particles.age) = Len(particles.pos)
            /\ \A j \in 1..Len(particles.pos) :
                  \E q \in {particles.pos[j]}, i \in {sv[j]} :
                      /\ particles.age[j] >= 1
                      /\ distances[i] = Dist2(q, call.blue_pos)
                      /\ IF i <= Len(pre.pos)
                         THEN /\ particles.age[j] = pre.age[i] + 1
                              /\ q = VAdd(pre.pos[i], pre.vel[i])
                         ELSE /\ particles.age[j] = 1
                              /\ OnShell(q, call.origin, red_radius + wind_speed, 3)

\* a tick on a pool of earlier ticks that removes some particles
TickOrderWitness ==
    /\ call.op = "update_frames"
    /\ Len(pre.pos) > 0
    /\ Len(particles.pos) < Len(pre.pos) + particles_frame
    /\ Len(particles.pos) > Len(pre.pos)

\* C7: update_frames reads the phase table at frame mod orbit_period, an index of the
\* table; the emitter is on the circle of radius red_radius, the absorber opposite to it
\* through the center on the circle of radius blue_radius; the positions repeat with
\* period orbit_period and at phase 0 they are (1.2, 0, 0) and (-3.0, 0, 0)
OrbitPhase ==
    call.op = "update_frames" =>
        /\ call.frame_idx \in 0..(orbit_period - 1)
        /\ \E m \in -4..4 : call.frame = m * orbit_period + call.frame_idx
        /\ call.frame_idx \in DOMAIN theta
        /\ OnShell(call.origin, center, red_radius, 2)
        /\ OnShell(call.blue_pos, center, blue_radius, 3)
        /\ call.origin[3] = 0 /\ call.blue_pos[3] = 0
        /\ \A k \in 1..2 :
              Abs(call.blue_pos[k] * red_radius + call.origin[k] * blue_radius)
                 <= (red_radius + blue_radius) \div 2
        /\ call.origin = RedPos(call.frame + orbit_period)
        /\ call.blue_pos = BluePos(call.frame + orbit_period)
        /\ call.origin = RedPos(call.frame - orbit_period)
        /\ call.frame_idx = 0 =>
              call.origin = <<1200, 0, 0>> /\ call.blue_pos = <<-3000, 0, 0>>
        /\ call.frame_idx = 30 =>
              call.origin = <<0, 1200, 0>> /\ call.blue_pos = <<0, -3000, 0>>

\* a negative frame and a frame beyond the table, both at phase 119
OrbitPhaseWitness ==
    /\ call.op = "update_frames"
    /\ call.frame = -121
    /\ call.frame_idx = 119
    /\ call.origin[2] < 0
    /\ call.blue_pos[2] > 0

\* a configuration every radius and the sample count of which are positive
WellFormed(c) ==
    /\ c.red_radius > 0
    /\ c.blue_radius > 0
    /\ c.absorption_radius > 0
    /\ c.orbit_period > 0

\* C8: no tick runs under a malformed configuration: the module's top level rejects it
MalformedRejected == steps > 0 => WellFormed(cfg)

\* C10: a tick removes a particle only for its distance to the absorber, never for its
\* age: every particle of the pool whose distance is not below the removal radius is
\* still there after the tick, one step older, also past the configured particle_life,
\* and the pool holds nothing but those and the particles the tick emitted
NoAgeCulling ==
    call.op = "update_frames" =>
        \E sv \in {Survivors} :
            /\ Len(particles.pos) = Len(sv)
            /\ Len(distances) = Len(pre.pos) + call.n
            /\ \A j \in 1..Len(sv) :
                  sv[j] <= Len(pre.pos) =>
                      /\ particles.age[j] = pre.age[sv[j]] + 1
                      /\ particles.pos[j] = VAdd(pre.pos[sv[j]], pre.vel[sv[j]])
            /\ \A i \in 1..Len(pre.pos) :
                  distances[i] >= removal_radius * removal_radius =>
                      \E j \in 1..Len(sv) : sv[j] = i

\* a particle older than the configured particle_life is still in the pool
NoAgeCullingWitness ==
    /\ call.op = "update_frames"
    /\ \E j \in 1..Len(particles.age) : particles.age[j] > cfg.particle_life
    /\ Len(particles.pos) > call.n

====
